---- MODULE Spec2Model ----
(***************************************************************************)
(* Subscription lifecycle of src/bot.py: the SQLite ledger (users,         *)
(* subscriptions, payments), the aiogram handlers that write to it         *)
(* (cmd_start, trial_handler, successful_payment_handler,                  *)
(* admin_extend_days), the scheduled sweep check_subscriptions with its    *)
(* two scheduler jobs, and the calls both make to the channel              *)
(* (send_invite_button, remove_from_channel).                              *)
(*                                                                         *)
(* Every handler is a coroutine: it is modelled as a task whose steps are  *)
(* the stretches of code between two awaits of a database helper or a bot  *)
(* call, so steps of different handlers and of the sweep interleave.  One  *)
(* database helper call (connect, execute, commit) is one atomic step:     *)
(* SQLite serialises writers.                                              *)
(*                                                                         *)
(* The clock is read in whole days.  The code stores                       *)
(* datetime.isoformat() text and compares it as text; for UTC datetimes    *)
(* of one format that order is the order of the instants, so a row keeps   *)
(* the day number.                                                         *)
(***************************************************************************)
EXTENDS Integers, Sequences, FiniteSets, TLC

(* ---- bounds of the model ---- *)
MaxSubs == 2
MaxTime == 3

(* ---- program constants ---- *)
TRIAL_DAYS == 2
DaysPerMonth == 30
MinPayloadParts == 4

(* ---- inputs ---- *)
TgIds == {11, 12}
ChargeIds == {"ch1", "ch2"}
Months == {1, 3}
ExtendDays == {1}
Tasks == {1, 2}
Jobs == {"cron", "interval"}

NoCharge == "none"

VARIABLES
    now,            \* datetime.utcnow(), in days
    users,          \* table users: row id = position
    subscriptions,  \* table subscriptions: row id = position
    payments,       \* table payments: row id = position
    task,           \* the handler coroutines in flight or finished
    sweep,          \* the check_subscriptions coroutine of each scheduler job
    grants,         \* history: send_invite_button calls, per telegram id and handler
    calls,          \* history: revoke / notice / reminder calls of each job's current run
    origin,         \* history: for each subscription row, who appended it and when
    obs,            \* history: what the current sweep saw when it started / expired rows
    net,            \* whether Telegram accepts the bot's channel calls and its messages
    channel,        \* the channel's member list: each user's status in it
    delivered,      \* history: what the send_invite_button calls handed to each user
    starts,         \* history: what create_or_get_user returned, per telegram id
    boot            \* history: whom the last process start found expired and unserved

vars == <<now, users, subscriptions, payments, task, sweep, grants, calls, origin, obs,
          net, channel, delivered, starts, boot>>

(***************************************************************************)
(* Ledger reads                                                            *)
(***************************************************************************)

\* SELECT id, trial_used FROM users WHERE telegram_id = ?  (None when no row)
get_user_by_telegram(telegram_id) ==
    IF \E i \in DOMAIN users : users[i].telegram_id = telegram_id
    THEN LET i == CHOOSE j \in DOMAIN users : users[j].telegram_id = telegram_id
         IN  [found |-> TRUE, id |-> i, trial_used |-> users[i].trial_used]
    ELSE [found |-> FALSE, id |-> 0, trial_used |-> FALSE]

\* subscriptions s JOIN users u ON s.user_id = u.id, restricted to one telegram id
RowsOf(subs, telegram_id) ==
    {i \in DOMAIN subs :
        \E u \in DOMAIN users : subs[i].user_id = u /\ users[u].telegram_id = telegram_id}

\* ... WHERE u.telegram_id = ? AND s.expires_at > now AND s.status = 'active' LIMIT 1
has_active_subscription_by_telegram(telegram_id) ==
    \E i \in RowsOf(subscriptions, telegram_id) :
        subscriptions[i].expires_at > now /\ subscriptions[i].status = "active"

(***************************************************************************)
(* Ledger writes                                                           *)
(***************************************************************************)

\* (mutant of create_or_get_user: a plain INSERT on a column that is not UNIQUE)
create_or_get_user_PlainInsert(rows, telegram_id) ==
    Append(rows, [telegram_id |-> telegram_id, trial_used |-> FALSE])

\* INSERT OR IGNORE INTO users (telegram_id, ...): telegram_id is UNIQUE
create_or_get_user(rows, telegram_id) ==
    IF \E i \in DOMAIN rows : rows[i].telegram_id = telegram_id
    THEN rows
    ELSE Append(rows, [telegram_id |-> telegram_id, trial_used |-> FALSE])

\* cursor.rowcount of the INSERT OR IGNORE: the number of rows it inserted
RowCount(before, after) == Len(after) - Len(before)

\* (mutant of set_trial_used: the UPDATE matches no row)
set_trial_used_NoRow(rows, user_id) == rows

\* UPDATE users SET trial_used = 1 WHERE id = ?
set_trial_used(rows, user_id) ==
    [i \in DOMAIN rows |->
        IF i = user_id THEN [rows[i] EXCEPT !.trial_used = TRUE] ELSE rows[i]]

\* (mutant of add_subscription: the new row runs on from the user's latest row)
add_subscription_Stacked(subs, user_id, days) ==
    LET held == {subs[i].expires_at : i \in {k \in DOMAIN subs : subs[k].user_id = user_id}}
        from == CHOOSE d \in held \cup {now} : \A e \in held \cup {now} : e <= d
    IN  Append(subs, [user_id |-> user_id, expires_at |-> from + days, status |-> "active"])

\* INSERT INTO subscriptions (user_id, expires_at): status defaults to 'active',
\* expires = datetime.utcnow() + timedelta(days=days)
add_subscription(subs, user_id, days) ==
    Append(subs, [user_id |-> user_id, expires_at |-> now + days, status |-> "active"])

\* (mutant of ChargeIdTaken: the column is not declared UNIQUE)
ChargeIdTaken_NotUnique(rows, charge_id) == FALSE

\* The UNIQUE constraint on payments.telegram_payment_charge_id: the INSERT
\* raises IntegrityError when a row with the charge id exists.
ChargeIdTaken(rows, charge_id) ==
    \E i \in DOMAIN rows : rows[i].charge_id = charge_id

\* INSERT INTO payments (telegram_payment_charge_id, user_id, amount, months, status)
\* VALUES (?, ?, ?, ?, 'paid').  user_id receives the telegram id of the payload.
\* The amount and the two timestamps are not read by any code and are left out.
InsertPayment(rows, charge_id, telegram_id, months) ==
    Append(rows, [charge_id |-> charge_id, user_id |-> telegram_id,
                  months |-> months, status |-> "paid"])

\* (mutant of ExpireRows: the user's rows are deleted instead of marked)
ExpireRows_Delete(subs, telegram_id) ==
    SelectSeq(subs, LAMBDA r : users[r.user_id].telegram_id # telegram_id)

\* UPDATE subscriptions SET status = 'expired'
\* WHERE user_id = (SELECT id FROM users WHERE telegram_id = ?)
ExpireRows(subs, telegram_id) ==
    [i \in DOMAIN subs |->
        IF i \in RowsOf(subs, telegram_id)
        THEN [subs[i] EXCEPT !.status = "expired"]
        ELSE subs[i]]

(***************************************************************************)
(* Payment payload: "sub_<telegram id>_<months>_<provider key>".  The model *)
(* holds the payload as the list payload.split("_") yields; a part is a    *)
(* record telling whether int() accepts it and, if so, its value.          *)
(***************************************************************************)
Word == [int |-> FALSE, val |-> 0]
Num(n) == [int |-> TRUE, val |-> n]

\* (mutant of PayloadAccepted: a part that is no number is read as 0)
PayloadAccepted_NoIntCheck(parts) == Len(parts) >= MinPayloadParts

\* len(parts) < 4 -> return; int(parts[1]), int(parts[2]) raising -> return
\* (parts[k] of the code is parts[k + 1] here)
PayloadAccepted(parts) ==
    /\ Len(parts) >= MinPayloadParts
    /\ parts[2].int
    /\ parts[3].int

\* the payloads send_invoice_by_method builds for the users U and the periods M
InvoicePayloads(U, M) ==
    {<<Word, Num(u), Num(m), Word, Word>> : u \in U, m \in M}

\* payloads of other shapes: too few parts, a user id or a period that is no number
OtherPayloads ==
    {<<Word, Num(11), Num(1)>>,
     <<Word, Word, Num(1), Word, Word>>,
     <<Word, Num(11), Word, Word, Word>>}

(***************************************************************************)
(* Access: the channel's invite links and its member list                  *)
(***************************************************************************)

\* create_chat_invite_link(member_limit=1, expire_date=now + 24 h); when the
\* call raises, the fixed URL of the except branch
get_invite_link == IF net.dir THEN "invite" ELSE "fallback"

\* invite_link = await get_invite_link(); await bot.send_message(user_id, text,
\* the button with the link); an exception of the send is logged and dropped.
\* Nothing changes between the two awaits that either call reads.
send_invite_button(telegram_id) ==
    [delivered EXCEPT ![telegram_id] =
        @ \cup {IF net.msg THEN get_invite_link ELSE "nothing"}]

\* bot.ban_chat_member: the user is removed and barred from joining
ban_chat_member(telegram_id) == [channel EXCEPT ![telegram_id] = "kicked"]

\* bot.unban_chat_member: the bar is lifted; a member is removed
unban_chat_member(telegram_id) == [channel EXCEPT ![telegram_id] = "left"]

(***************************************************************************)
(* Handler tasks                                                           *)
(***************************************************************************)
\* late is history: whether, when the update arrived, an earlier trial of the
\* user had completed (trial) or the charge id was already recorded (pay).
IdleTask ==
    [kind |-> "none", pc |-> "idle", tg |-> 0, uid |-> 0, n |-> 0,
     charge |-> NoCharge, payload |-> <<>>, outcome |-> "none", late |-> FALSE]

Free(t) == task[t].pc \in {"idle", "done"}

\* A new update is handled by a fresh coroutine; it takes the lowest free slot.
Slot(t) == Free(t) /\ \A s \in Tasks : s < t => ~Free(s)

\* The coroutine returns (or an exception leaves it): its locals are gone.
\* What is kept says which handler it was and how it ended.
Finish(t, outcome) ==
    [task EXCEPT ![t] = [IdleTask EXCEPT !.kind = task[t].kind, !.pc = "done",
                                         !.outcome = outcome, !.late = task[t].late]]

NoGrants == [trial |-> 0, pay |-> 0, extend |-> 0]
NoCalls ==
    [tg \in TgIds |-> [revoke |-> 0, failed |-> 0, notice |-> 0, unsent |-> 0, reminder |-> 0]]
NoObs ==
    [renewed |-> {}, allExpired |-> {}, staleOnly |-> {}, len |-> 0,
     stale |-> {}, owed |-> {}, passes |-> {}, revoke |-> "none"]
NoStarts == [new |-> 0, known |-> FALSE]
NoBoot == [owed |-> {}, noticed |-> {}, cut |-> {}]
AllUp == [dir |-> TRUE, msg |-> TRUE]

IdleSweep ==
    [pc |-> "idle", now |-> 0, list |-> <<>>, idx |-> 0,
     rlist |-> <<>>, ridx |-> 0, mlist |-> <<>>, midx |-> 0]

Init ==
    /\ now = 0
    /\ users = <<>>
    /\ subscriptions = <<>>
    /\ payments = <<>>
    /\ task = [t \in Tasks |-> IdleTask]
    /\ sweep = [j \in Jobs |-> IdleSweep]
    /\ grants = [tg \in TgIds |-> NoGrants]
    /\ calls = [j \in Jobs |-> NoCalls]
    /\ origin = <<>>
    /\ obs = [j \in Jobs |-> NoObs]
    /\ net = AllUp
    /\ channel = [tg \in TgIds |-> "left"]
    /\ delivered = [tg \in TgIds |-> {}]
    /\ starts = [tg \in TgIds |-> NoStarts]
    /\ boot = NoBoot

\* The wall clock advances.
Tick ==
    /\ now < MaxTime
    /\ now' = now + 1
    /\ UNCHANGED <<users, subscriptions, payments, task, sweep, grants, calls, origin, obs, net, channel, delivered, starts, boot>>

\* cmd_start: is_new = await create_or_get_user(...), then only messages to
\* the user (the welcome video when is_new).
CmdStart(telegram_id) ==
    /\ users' = create_or_get_user(users, telegram_id)
    /\ LET is_new == RowCount(users, users') > 0
       IN  starts' = [starts EXCEPT ![telegram_id] =
                        IF is_new THEN [@ EXCEPT !.new = @ + 1]
                                  ELSE [@ EXCEPT !.known = TRUE]]
    /\ UNCHANGED <<now, subscriptions, payments, task, sweep, grants, calls, origin, obs,
                   net, channel, delivered, boot>>

\* /start of a user of U who has not sent it before
FirstStart(U) ==
    \E tg \in U : ~get_user_by_telegram(tg).found /\ CmdStart(tg)

(* ---- trial_handler ---- *)

\* user = await get_user_by_telegram(...); the two early returns
TrialGet(t, telegram_id) ==
    /\ Slot(t)
    /\ LET user == get_user_by_telegram(telegram_id)
           fresh == [IdleTask EXCEPT !.kind = "trial", !.tg = telegram_id,
                                     !.late = grants[telegram_id].trial > 0]
       IN  task' = [task EXCEPT ![t] =
                IF ~user.found
                THEN [fresh EXCEPT !.pc = "done", !.outcome = "nouser", !.tg = 0]
                ELSE IF user.trial_used
                     THEN [fresh EXCEPT !.pc = "done", !.outcome = "rejected", !.tg = 0]
                     ELSE [fresh EXCEPT !.pc = "t_set", !.uid = user.id]]
    /\ UNCHANGED <<now, users, subscriptions, payments, sweep, grants, calls, origin, obs, net, channel, delivered, starts, boot>>

\* await set_trial_used(user["id"])
TrialSet(t) ==
    /\ task[t].pc = "t_set"
    /\ users' = set_trial_used(users, task[t].uid)
    /\ task' = [task EXCEPT ![t].pc = "t_add"]
    /\ UNCHANGED <<now, subscriptions, payments, sweep, grants, calls, origin, obs, net, channel, delivered, starts, boot>>

\* await add_subscription(user["id"], TRIAL_DAYS)
TrialAdd(t) ==
    /\ task[t].pc = "t_add"
    /\ Len(subscriptions) < MaxSubs
    /\ subscriptions' = add_subscription(subscriptions, task[t].uid, TRIAL_DAYS)
    /\ origin' = Append(origin, [kind |-> "trial", charge |-> NoCharge, created |-> now])
    /\ task' = [task EXCEPT ![t].pc = "t_invite"]
    /\ UNCHANGED <<now, users, payments, sweep, grants, calls, obs, net, channel, delivered, starts, boot>>

\* await send_invite_button(callback.from_user.id, ...)
TrialInvite(t) ==
    /\ task[t].pc = "t_invite"
    /\ grants' = [grants EXCEPT ![task[t].tg].trial = @ + 1]
    /\ delivered' = send_invite_button(task[t].tg)
    /\ task' = Finish(t, "ok")
    /\ UNCHANGED <<now, users, subscriptions, payments, sweep, calls, origin, obs,
                   net, channel, starts, boot>>

(* ---- successful_payment_handler ---- *)

\* payload.split("_"), the length check and the two int() calls: no await
PayStart(t, payload, charge_id) ==
    /\ Slot(t)
    /\ LET fresh == [IdleTask EXCEPT !.kind = "pay", !.payload = payload,
                                     !.charge = charge_id,
                                     !.late = ChargeIdTaken(payments, charge_id)]
       IN  task' = [task EXCEPT ![t] =
                IF PayloadAccepted(payload)
                THEN [fresh EXCEPT !.pc = "p_insert", !.tg = payload[2].val,
                                   !.n = payload[3].val]
                ELSE [fresh EXCEPT !.pc = "done", !.outcome = "rejected",
                                   !.charge = NoCharge]]
    /\ UNCHANGED <<now, users, subscriptions, payments, sweep, grants, calls, origin, obs, net, channel, delivered, starts, boot>>

\* INSERT INTO payments ...; commit.  A duplicate charge id raises and the
\* exception leaves the handler.
PayInsert(t) ==
    /\ task[t].pc = "p_insert"
    /\ IF ChargeIdTaken(payments, task[t].charge)
       THEN /\ task' = Finish(t, "duplicate")
            /\ UNCHANGED payments
       ELSE /\ payments' = InsertPayment(payments, task[t].charge, task[t].tg, task[t].n)
            /\ task' = [task EXCEPT ![t].pc = "p_getuser"]
    /\ UNCHANGED <<now, users, subscriptions, sweep, grants, calls, origin, obs, net, channel, delivered, starts, boot>>

\* activate_subscription: user = await get_user_by_telegram(telegram_id); if user:
PayGetUser(t) ==
    /\ task[t].pc = "p_getuser"
    /\ LET user == get_user_by_telegram(task[t].tg)
       IN  task' = [task EXCEPT ![t].pc = IF user.found THEN "p_add" ELSE "p_invite",
                                ![t].uid = user.id]
    /\ UNCHANGED <<now, users, subscriptions, payments, sweep, grants, calls, origin, obs, net, channel, delivered, starts, boot>>

\* activate_subscription: await add_subscription(user["id"], months * 30)
PayAdd(t) ==
    /\ task[t].pc = "p_add"
    /\ Len(subscriptions) < MaxSubs
    /\ subscriptions' = add_subscription(subscriptions, task[t].uid, task[t].n * DaysPerMonth)
    /\ origin' = Append(origin, [kind |-> "pay", charge |-> task[t].charge, created |-> now])
    /\ task' = [task EXCEPT ![t].pc = "p_invite"]
    /\ UNCHANGED <<now, users, payments, sweep, grants, calls, obs, net, channel, delivered, starts, boot>>

\* await send_invite_button(user_id, ...)
PayInvite(t) ==
    /\ task[t].pc = "p_invite"
    /\ grants' = [grants EXCEPT ![task[t].tg].pay = @ + 1]
    /\ delivered' = send_invite_button(task[t].tg)
    /\ task' = Finish(t, "ok")
    /\ UNCHANGED <<now, users, subscriptions, payments, sweep, calls, origin, obs,
                   net, channel, starts, boot>>

(* ---- admin_extend_days ---- *)

\* days = int(text); user = await get_user_by_telegram(user_id); if not user: ...
ExtendGet(t, telegram_id, days) ==
    /\ Slot(t)
    /\ LET user == get_user_by_telegram(telegram_id)
           fresh == [IdleTask EXCEPT !.kind = "extend", !.tg = telegram_id]
       IN  task' = [task EXCEPT ![t] =
                IF user.found
                THEN [fresh EXCEPT !.pc = "e_add", !.uid = user.id, !.n = days]
                ELSE [fresh EXCEPT !.pc = "done", !.outcome = "nouser", !.tg = 0]]
    /\ UNCHANGED <<now, users, subscriptions, payments, sweep, grants, calls, origin, obs, net, channel, delivered, starts, boot>>

\* await add_subscription(user["id"], days)
ExtendAdd(t) ==
    /\ task[t].pc = "e_add"
    /\ Len(subscriptions) < MaxSubs
    /\ subscriptions' = add_subscription(subscriptions, task[t].uid, task[t].n)
    /\ origin' = Append(origin, [kind |-> "extend", charge |-> NoCharge, created |-> now])
    /\ task' = [task EXCEPT ![t].pc = "e_invite"]
    /\ UNCHANGED <<now, users, payments, sweep, grants, calls, obs, net, channel, delivered, starts, boot>>

\* await send_invite_button(user_id, ...)
ExtendInvite(t) ==
    /\ task[t].pc = "e_invite"
    /\ grants' = [grants EXCEPT ![task[t].tg].extend = @ + 1]
    /\ delivered' = send_invite_button(task[t].tg)
    /\ task' = Finish(t, "ok")
    /\ UNCHANGED <<now, users, subscriptions, payments, sweep, calls, origin, obs,
                   net, channel, starts, boot>>

(***************************************************************************)
(* check_subscriptions.  main() schedules it twice, as a cron job and as   *)
(* an interval job; j names the job whose run a step belongs to.           *)
(***************************************************************************)

ActiveRows == SelectSeq(subscriptions, LAMBDA r : r.status = "active")

\* SELECT u.telegram_id, ..., s.expires_at FROM subscriptions s JOIN users u
\* WHERE s.status = 'active'   (rows come in rowid order)
get_active_subscribers ==
    [i \in 1..Len(ActiveRows) |->
        [telegram_id |-> users[ActiveRows[i].user_id].telegram_id,
         expires_at |-> ActiveRows[i].expires_at]]

\* The for loop runs without an await up to the next row with expires < now.
NextStale(list, from, t) ==
    LET S == {j \in from..Len(list) : list[j].expires_at < t}
    IN  IF S = {} THEN Len(list) + 1 ELSE CHOOSE j \in S : \A k \in S : j <= k

\* The elements of seq in order, each once (SELECT DISTINCT).
Distinct(seq) ==
    LET keep == {i \in DOMAIN seq : \A j \in 1..(i - 1) : seq[j] # seq[i]}
    IN  [k \in 1..Cardinality(keep) |->
            seq[CHOOSE i \in keep : Cardinality({j \in keep : j < i}) = k - 1]]

\* SELECT DISTINCT u.telegram_id ... WHERE s.status = 'expired' AND NOT EXISTS
\* (... s2.status = 'active' AND datetime(s2.expires_at) >= datetime(now)).
\* datetime() drops fractions of a second, of which a whole day has none.
ExpiredWithoutActive(t) ==
    LET hit(i) ==
            /\ subscriptions[i].status = "expired"
            /\ ~\E j \in DOMAIN subscriptions :
                    /\ subscriptions[j].user_id = subscriptions[i].user_id
                    /\ subscriptions[j].status = "active"
                    /\ subscriptions[j].expires_at >= t
        rows == SelectSeq([i \in DOMAIN subscriptions |-> i], hit)
    IN  Distinct([k \in DOMAIN rows |-> users[subscriptions[rows[k]].user_id].telegram_id])

\* SELECT u.telegram_id, ... WHERE s.status = 'active'
\* AND date(s.expires_at) = date(tomorrow), tomorrow = now + timedelta(days=1).
\* date() is the calendar day of a timestamp: here the day number itself.
ExpiringTomorrow(t) ==
    LET rows == SelectSeq(subscriptions,
                    LAMBDA r : r.status = "active" /\ r.expires_at = t + 1)
    IN  [k \in DOMAIN rows |-> users[rows[k].user_id].telegram_id]

SweepUser(j) == sweep[j].list[sweep[j].idx].telegram_id
RecoverUser(j) == sweep[j].rlist[sweep[j].ridx]

\* a run of job j is between its first line and its return
Running(j) == sweep[j].pc \notin {"idle", "done"}

\* after one row of the expiry loop: on to the next stale row, or to the recovery pass
AfterRow(j) ==
    LET k == NextStale(sweep[j].list, sweep[j].idx + 1, sweep[j].now)
    IN  [sweep[j] EXCEPT !.idx = k,
                         !.pc = IF k <= Len(sweep[j].list) THEN "expire" ELSE "recover"]

\* after one user of the recovery loop
AfterRecover(j) ==
    [sweep[j] EXCEPT !.ridx = @ + 1,
                     !.pc = IF sweep[j].ridx < Len(sweep[j].rlist) THEN "rverify" ELSE "remind"]

\* check_subscriptions has returned: its locals are gone
SweepReturned == [IdleSweep EXCEPT !.pc = "done"]

\* (mutant of AfterNotice: the exception of a failed send leaves the job)
AfterNotice_Raise(sent, next) == IF sent THEN next ELSE SweepReturned

\* try: await bot.send_message(...)  except: pass (or a log line): the loop
\* goes on to next whether the message was sent or not
AfterNotice(sent, next) == next

\* the users with an expired row and no active row with expires_at > now
ExpiredUnserved ==
    {tg \in TgIds :
        /\ \E i \in RowsOf(subscriptions, tg) : subscriptions[i].status = "expired"
        /\ ~has_active_subscription_by_telegram(tg)}

\* now = datetime.utcnow(); subscribers = await get_active_subscribers().
\* The scheduler starts no second run of a job while one is in progress
\* (add_job is called without max_instances); the two jobs are not tied.
SweepStart(j) ==
    /\ ~Running(j)
    /\ LET list == get_active_subscribers
           k == NextStale(list, 1, now)
       IN  sweep' = [sweep EXCEPT ![j] =
                        [IdleSweep EXCEPT !.now = now, !.list = list, !.idx = k,
                            !.pc = IF k <= Len(list) THEN "expire" ELSE "recover"]]
    /\ calls' = [calls EXCEPT ![j] = NoCalls]
    /\ obs' = [obs EXCEPT ![j] =
              [NoObs EXCEPT
                !.allExpired = {tg \in TgIds :
                    /\ RowsOf(subscriptions, tg) # {}
                    /\ \A i \in RowsOf(subscriptions, tg) :
                            subscriptions[i].status = "expired"},
                !.staleOnly = {tg \in TgIds :
                    /\ RowsOf(subscriptions, tg) # {}
                    /\ \A i \in RowsOf(subscriptions, tg) :
                            /\ subscriptions[i].status = "active"
                            /\ subscriptions[i].expires_at < now},
                !.len = Len(subscriptions),
                !.stale = {i \in DOMAIN subscriptions :
                    /\ subscriptions[i].status = "active"
                    /\ subscriptions[i].expires_at < now},
                !.owed = {tg \in ExpiredUnserved : calls[j][tg].failed > 0}]]
    /\ UNCHANGED <<now, users, subscriptions, payments, task, grants, origin,
                   net, channel, delivered, starts, boot>>

\* if expires < now: UPDATE subscriptions SET status = 'expired' WHERE user_id = ...
SweepExpire(j) ==
    /\ sweep[j].pc = "expire"
    /\ subscriptions' = ExpireRows(subscriptions, SweepUser(j))
    /\ sweep' = [sweep EXCEPT ![j].pc = "verify"]
    /\ obs' = [obs EXCEPT ![j].renewed =
                    IF has_active_subscription_by_telegram(SweepUser(j))
                    THEN @ \cup {SweepUser(j)} ELSE @]
    /\ UNCHANGED <<now, users, payments, task, grants, calls, origin,
                   net, channel, delivered, starts, boot>>

\* has_new_sub = await has_active_subscription_by_telegram(telegram_id);
\* if has_new_sub: continue
SweepVerify(j) ==
    /\ sweep[j].pc = "verify"
    /\ sweep' = [sweep EXCEPT ![j] =
                    IF has_active_subscription_by_telegram(SweepUser(j))
                    THEN AfterRow(j)
                    ELSE [sweep[j] EXCEPT !.pc = "remove"]]
    /\ UNCHANGED <<now, users, subscriptions, payments, task, grants, calls, origin, obs,
                   net, channel, delivered, starts, boot>>

\* (mutant of Ban: a failed call takes the UPDATE of the user's rows back)
Ban_Rollback(j, telegram_id, unban, after) ==
    /\ calls' = [calls EXCEPT ![j][telegram_id].revoke = @ + 1,
                              ![j][telegram_id].failed = IF net.dir THEN @ ELSE @ + 1]
    /\ channel' = IF net.dir THEN ban_chat_member(telegram_id) ELSE channel
    /\ obs' = [obs EXCEPT ![j].revoke = IF net.dir THEN "ok" ELSE "failed"]
    /\ sweep' = [sweep EXCEPT ![j].pc = IF net.dir THEN unban ELSE after]
    /\ subscriptions' =
            IF net.dir
            THEN subscriptions
            ELSE [i \in DOMAIN subscriptions |->
                    IF i \in RowsOf(subscriptions, telegram_id)
                    THEN [subscriptions[i] EXCEPT !.status = "active"]
                    ELSE subscriptions[i]]
    /\ UNCHANGED <<now, users, payments, task, grants, origin,
                   net, delivered, starts, boot>>

\* remove_from_channel, first await: bot.ban_chat_member.  When it raises, the
\* except branch logs and the function returns None, as it does on success.
Ban(j, telegram_id, unban, after) ==
    /\ calls' = [calls EXCEPT ![j][telegram_id].revoke = @ + 1,
                              ![j][telegram_id].failed = IF net.dir THEN @ ELSE @ + 1]
    /\ channel' = IF net.dir THEN ban_chat_member(telegram_id) ELSE channel
    /\ obs' = [obs EXCEPT ![j].revoke = IF net.dir THEN "ok" ELSE "failed"]
    /\ sweep' = [sweep EXCEPT ![j].pc = IF net.dir THEN unban ELSE after]
    /\ UNCHANGED <<now, users, subscriptions, payments, task, grants, origin,
                   net, delivered, starts, boot>>

\* remove_from_channel after asyncio.sleep(1): bot.unban_chat_member.  When it
\* raises, the same except branch: the user stays barred.
Unban(j, telegram_id, after) ==
    /\ calls' = [calls EXCEPT ![j][telegram_id].failed = IF net.dir THEN @ ELSE @ + 1]
    /\ channel' = IF net.dir THEN unban_chat_member(telegram_id) ELSE channel
    /\ obs' = [obs EXCEPT ![j].revoke = IF net.dir THEN @ ELSE "failed"]
    /\ sweep' = [sweep EXCEPT ![j].pc = after]
    /\ UNCHANGED <<now, users, subscriptions, payments, task, grants, origin,
                   net, delivered, starts, boot>>

\* await remove_from_channel(telegram_id)
SweepRemove(j) ==
    /\ sweep[j].pc = "remove"
    /\ Ban(j, SweepUser(j), "unban", "notify")

SweepUnban(j) ==
    /\ sweep[j].pc = "unban"
    /\ Unban(j, SweepUser(j), "notify")

\* try: await bot.send_message(telegram_id, "... подписка истекла.")  except: pass
SweepNotify(j) ==
    /\ sweep[j].pc = "notify"
    /\ calls' = [calls EXCEPT ![j][SweepUser(j)].notice = @ + 1,
                              ![j][SweepUser(j)].unsent = IF net.msg THEN @ ELSE @ + 1]
    /\ sweep' = [sweep EXCEPT ![j] = AfterNotice(net.msg, AfterRow(j))]
    /\ UNCHANGED <<now, users, subscriptions, payments, task, grants, origin, obs,
                   net, channel, delivered, starts, boot>>

\* the recovery query, with the now of the sweep's first line
SweepRecoverQuery(j) ==
    /\ sweep[j].pc = "recover"
    /\ LET rlist == ExpiredWithoutActive(sweep[j].now)
       IN  sweep' = [sweep EXCEPT ![j].rlist = rlist, ![j].ridx = 1,
                         ![j].pc = IF rlist = <<>> THEN "remind" ELSE "rverify"]
    /\ obs' = [obs EXCEPT ![j].passes = @ \cup {"recovery"}]
    /\ UNCHANGED <<now, users, subscriptions, payments, task, grants, calls, origin,
                   net, channel, delivered, starts, boot>>

\* if not await has_active_subscription_by_telegram(telegram_id):
SweepRecoverVerify(j) ==
    /\ sweep[j].pc = "rverify"
    /\ sweep' = [sweep EXCEPT ![j] =
                    IF has_active_subscription_by_telegram(RecoverUser(j))
                    THEN AfterRecover(j)
                    ELSE [sweep[j] EXCEPT !.pc = "rremove"]]
    /\ UNCHANGED <<now, users, subscriptions, payments, task, grants, calls, origin, obs,
                   net, channel, delivered, starts, boot>>

\* await remove_from_channel(telegram_id)
SweepRecoverRemove(j) ==
    /\ sweep[j].pc = "rremove"
    /\ Ban(j, RecoverUser(j), "runban", "rnotify")

SweepRecoverUnban(j) ==
    /\ sweep[j].pc = "runban"
    /\ Unban(j, RecoverUser(j), "rnotify")

\* try: await bot.send_message(telegram_id, "... Вы удалены из канала.")
\* except Exception: a log line
SweepRecoverNotify(j) ==
    /\ sweep[j].pc = "rnotify"
    /\ calls' = [calls EXCEPT ![j][RecoverUser(j)].notice = @ + 1,
                              ![j][RecoverUser(j)].unsent = IF net.msg THEN @ ELSE @ + 1]
    /\ sweep' = [sweep EXCEPT ![j] = AfterNotice(net.msg, AfterRecover(j))]
    /\ UNCHANGED <<now, users, subscriptions, payments, task, grants, origin, obs,
                   net, channel, delivered, starts, boot>>

\* the reminder query
SweepRemindQuery(j) ==
    /\ sweep[j].pc = "remind"
    /\ LET mlist == ExpiringTomorrow(sweep[j].now)
       IN  sweep' = [sweep EXCEPT ![j] =
                        IF mlist = <<>>
                        THEN SweepReturned
                        ELSE [sweep[j] EXCEPT !.mlist = mlist, !.midx = 1, !.pc = "msend"]]
    /\ obs' = [obs EXCEPT ![j].passes = @ \cup {"reminder"}]
    /\ UNCHANGED <<now, users, subscriptions, payments, task, grants, calls, origin,
                   net, channel, delivered, starts, boot>>

\* try: await bot.send_message(telegram_id, "... заканчивается завтра ...")
\* except Exception: a log line
SweepRemindSend(j) ==
    /\ sweep[j].pc = "msend"
    /\ LET tg == sweep[j].mlist[sweep[j].midx]
       IN  calls' = [calls EXCEPT ![j][tg].reminder = @ + 1,
                                  ![j][tg].unsent = IF net.msg THEN @ ELSE @ + 1]
    /\ sweep' = [sweep EXCEPT ![j] =
                    AfterNotice(net.msg,
                        IF sweep[j].midx < Len(sweep[j].mlist)
                        THEN [sweep[j] EXCEPT !.midx = @ + 1]
                        ELSE SweepReturned)]
    /\ UNCHANGED <<now, users, subscriptions, payments, task, grants, origin, obs,
                   net, channel, delivered, starts, boot>>

(***************************************************************************)
(* The world around the bot                                                *)
(***************************************************************************)

\* Telegram starts or stops refusing the bot's calls of one kind of F: its
\* channel calls ("dir") or its messages to the users ("msg").
NetChange(F) ==
    /\ \E f \in F : net' = [net EXCEPT ![f] = ~@]
    /\ UNCHANGED <<now, users, subscriptions, payments, task, sweep, grants, calls,
                   origin, obs, channel, delivered, starts, boot>>

\* A user who was handed an invite link opens it and joins the channel;
\* Telegram admits nobody who is barred.
Join(telegram_id) ==
    /\ "invite" \in delivered[telegram_id]
    /\ channel[telegram_id] = "left"
    /\ channel' = [channel EXCEPT ![telegram_id] = "member"]
    /\ UNCHANGED <<now, users, subscriptions, payments, task, sweep, grants, calls,
                   origin, obs, net, delivered, starts, boot>>

\* admin_add_user_id, for the text the administrator sent: int(text) of a
\* text that is no number raises ValueError and nothing is sent; for a number
\* the handler calls send_invite_button(user_id) and nothing else, it reads
\* and writes no table.
admin_add_user_id(text) ==
    /\ delivered' = IF text.int THEN send_invite_button(text.val) ELSE delivered
    /\ UNCHANGED <<now, users, subscriptions, payments, task, sweep, grants, calls,
                   origin, obs, net, channel, starts, boot>>

\* the texts an administrator sends as a user id for the users U
AdminTexts(U) == {Num(u) : u \in U} \cup {Word}

\* SELECT DISTINCT u.telegram_id ... WHERE s.status = 'active' AND s.expires_at < now,
\* less the users with has_active_subscription_by_telegram: the users
\* send_one_time_expired_notifications would write to
OneTimeExpired ==
    {tg \in TgIds :
        /\ \E i \in RowsOf(subscriptions, tg) :
                subscriptions[i].status = "active" /\ subscriptions[i].expires_at < now
        /\ ~has_active_subscription_by_telegram(tg)}

\* The charge ids whose payment row is committed while the handler has yet
\* to reach add_subscription for a payer who has a user row: the handler is
\* inside activate_subscription.
Interrupted ==
    {task[t].charge : t \in {k \in Tasks :
        /\ task[k].kind = "pay"
        /\ \/ task[k].pc = "p_add"
           \/ task[k].pc = "p_getuser" /\ get_user_by_telegram(task[k].tg).found}}

\* The process is started again on the same database file: the coroutines
\* of the old process are gone, and main() runs to start_polling: init_db,
\* the two add_job calls, scheduler.start.  It sends no message.
Restart ==
    /\ task' = [t \in Tasks |-> IdleTask]
    /\ sweep' = [j \in Jobs |-> IdleSweep]
    /\ boot' = [owed |-> OneTimeExpired, noticed |-> {}, cut |-> boot.cut \cup Interrupted]
    /\ UNCHANGED <<now, users, subscriptions, payments, grants, calls, origin, obs,
                   net, channel, delivered, starts>>

\* trial_handler in the coroutines T, for the users U
TrialOf(T, U) ==
    \E t \in T :
        \/ \E tg \in U : TrialGet(t, tg)
        \/ TrialSet(t)
        \/ TrialAdd(t)
        \/ TrialInvite(t)

\* successful_payment_handler in the coroutines T, for the payloads P and charge ids C
PayOf(T, P, C) ==
    \E t \in T :
        \/ \E p \in P, c \in C : PayStart(t, p, c)
        \/ PayInsert(t)
        \/ PayGetUser(t)
        \/ PayAdd(t)
        \/ PayInvite(t)

\* admin_extend_days in the coroutines T, for the users U
ExtendOf(T, U) ==
    \E t \in T :
        \/ \E tg \in U, d \in ExtendDays : ExtendGet(t, tg, d)
        \/ ExtendAdd(t)
        \/ ExtendInvite(t)

\* check_subscriptions as run by the jobs J
SweepOf(J) ==
    \E j \in J :
        \/ SweepStart(j)
        \/ SweepExpire(j)
        \/ SweepVerify(j)
        \/ SweepRemove(j)
        \/ SweepUnban(j)
        \/ SweepNotify(j)
        \/ SweepRecoverQuery(j)
        \/ SweepRecoverVerify(j)
        \/ SweepRecoverRemove(j)
        \/ SweepRecoverUnban(j)
        \/ SweepRecoverNotify(j)
        \/ SweepRemindQuery(j)
        \/ SweepRemindSend(j)

Sweep == SweepOf(Jobs)

\* The whole bot: the dispatcher's handlers and the scheduler's jobs on one
\* clock, Telegram failing and recovering, the process stopping and starting.
Next ==
    \/ Tick
    \/ \E tg \in TgIds : CmdStart(tg)
    \/ TrialOf(Tasks, TgIds)
    \/ PayOf(Tasks, InvoicePayloads(TgIds, Months) \cup OtherPayloads, ChargeIds)
    \/ ExtendOf(Tasks, TgIds)
    \/ Sweep
    \/ NetChange({"dir", "msg"})
    \/ \E tg \in TgIds : Join(tg)
    \/ \E text \in AdminTexts(TgIds) : admin_add_user_id(text)
    \/ Restart

Spec == Init /\ [][Next]_vars

\* The users' updates alone: two are handled at a time, each user's first
\* /start, trial requests and payments of one-month invoices, for any user
\* and any payload; the
\* scheduler's jobs do not run, the clock stands and Telegram answers.
NextHandlers ==
    \/ FirstStart(TgIds)
    \/ TrialOf(Tasks, TgIds)
    \/ PayOf(Tasks, InvoicePayloads(TgIds, {1}) \cup OtherPayloads, ChargeIds)

SpecHandlers == Init /\ [][NextHandlers]_vars

\* /start sent again and again by both users, next to their trial requests.
NextStart ==
    \/ \E tg \in TgIds : CmdStart(tg)
    \/ TrialOf(Tasks, TgIds)

SpecStart == Init /\ [][NextStart]_vars

\* The cron job against the clock and one user's updates, handled one at a
\* time, while Telegram answers.
SweepUsers == {11}

NextSweep ==
    \/ Tick
    \/ FirstStart(SweepUsers)
    \/ TrialOf({1}, SweepUsers)
    \/ PayOf({1}, InvoicePayloads(SweepUsers, Months), {"ch1"})
    \/ ExtendOf({1}, SweepUsers)
    \/ SweepOf({"cron"})

SpecSweep == Init /\ [][NextSweep]_vars

\* The cron job and one user's extensions while Telegram fails and recovers
\* and the user follows the invite links.
NextOutage ==
    \/ Tick
    \/ FirstStart(SweepUsers)
    \/ ExtendOf({1}, SweepUsers)
    \/ SweepOf({"cron"})
    \/ NetChange({"dir", "msg"})
    \/ \E tg \in SweepUsers : Join(tg)

SpecOutage == Init /\ [][NextOutage]_vars

\* The cron job and one user's trial and one-month payment while Telegram
\* fails and recovers.
NextFailures ==
    \/ Tick
    \/ FirstStart(SweepUsers)
    \/ TrialOf({1}, SweepUsers)
    \/ PayOf({1}, InvoicePayloads(SweepUsers, {1}), {"ch1"})
    \/ SweepOf({"cron"})
    \/ NetChange({"dir", "msg"})

SpecFailures == Init /\ [][NextFailures]_vars

\* The cron job and one user's extensions while Telegram refuses and accepts
\* the bot's messages, the scheduler running the job again and again and
\* each run going on to its next await.
NextNotify ==
    \/ Tick
    \/ FirstStart(SweepUsers)
    \/ ExtendOf({1}, SweepUsers)
    \/ SweepOf({"cron"})
    \/ NetChange({"msg"})

SpecNotifyFair == Init /\ [][NextNotify]_vars /\ WF_vars(SweepOf({"cron"}))

\* Both jobs of main() against the clock and one user's extensions, while
\* Telegram answers.
NextJobs ==
    \/ Tick
    \/ FirstStart(SweepUsers)
    \/ ExtendOf({1}, SweepUsers)
    \/ SweepOf(Jobs)

SpecJobs == Init /\ [][NextJobs]_vars

\* The cron job and a process that is started again, against the clock and
\* one user's extensions, while Telegram answers.
NextRestart ==
    \/ Tick
    \/ FirstStart(SweepUsers)
    \/ ExtendOf({1}, SweepUsers)
    \/ SweepOf({"cron"})
    \/ Restart

SpecRestart == Init /\ [][NextRestart]_vars

\* The three handlers that call add_subscription, for both users, against the
\* clock: no sweep runs and Telegram answers.
NextLedger ==
    \/ Tick
    \/ FirstStart(TgIds)
    \/ TrialOf({1}, TgIds)
    \/ PayOf({1}, InvoicePayloads(TgIds, Months), {"ch1"})
    \/ ExtendOf({1}, TgIds)

SpecLedger == Init /\ [][NextLedger]_vars

\* The administrator's two ways of giving access, by user id alone and by
\* extension, against the clock, the cron job and one user who may join.
NextAdmin ==
    \/ Tick
    \/ FirstStart(SweepUsers)
    \/ \E text \in AdminTexts(SweepUsers) : admin_add_user_id(text)
    \/ ExtendOf({1}, SweepUsers)
    \/ SweepOf({"cron"})
    \/ \E tg \in SweepUsers : Join(tg)

SpecAdmin == Init /\ [][NextAdmin]_vars

\* One user's payments of one charge id, delivered any number of times, and
\* a process that stops at any point and is started again.
NextCrash ==
    \/ Tick
    \/ FirstStart(SweepUsers)
    \/ PayOf({1}, InvoicePayloads(SweepUsers, {1}), {"ch1"})
    \/ Restart

SpecCrash == Init /\ [][NextCrash]_vars

(***************************************************************************)
(* Properties                                                              *)
(***************************************************************************)

InFlight(t) == ~Free(t)

\* the rows of a user that some handler appended as kind k
RowsOfKind(telegram_id, k) ==
    {i \in RowsOf(subscriptions, telegram_id) : origin[i].kind = k}

\* the subscription rows appended for a charge id
RowsOfCharge(charge_id) ==
    {i \in DOMAIN origin : origin[i].kind = "pay" /\ origin[i].charge = charge_id}

\* a row that is still unexpired by the clock, whatever its status
Unexpired(i) == subscriptions[i].expires_at > now

\* C1: a user who, when the sweep expired the stale row, held another active
\* row with expires_at > now is not revoked by that sweep, and still has an
\* active subscription when the sweep is over.
C1_RenewalKeepsAccess ==
    \A j \in Jobs : \A tg \in obs[j].renewed :
        /\ calls[j][tg].revoke = 0
        /\ (sweep[j].pc = "done" /\ \E i \in RowsOf(subscriptions, tg) : Unexpired(i))
                => has_active_subscription_by_telegram(tg)

\* C2: a user with two rows, the second acquired before the first expired, has
\* valid access at every instant before the later of the two expires_at.
C2_StackedAccessContinuous ==
    \A tg \in TgIds : \A i, j \in RowsOf(subscriptions, tg) :
        (/\ i < j
         /\ origin[j].created < subscriptions[i].expires_at
         /\ (Unexpired(i) \/ Unexpired(j)))
            => has_active_subscription_by_telegram(tg)

\* C3: each charge id has at most one payment row and at most one subscription
\* row, and the handler of an event whose charge id was already recorded
\* ends at the payload check or at the INSERT, before any row is appended.
C3_PaymentIdempotent ==
    /\ \A c \in ChargeIds :
            /\ Cardinality({i \in DOMAIN payments : payments[i].charge_id = c}) <= 1
            /\ Cardinality(RowsOfCharge(c)) <= 1
    /\ \A t \in Tasks :
            (task[t].kind = "pay" /\ task[t].late)
                => \/ task[t].pc = "p_insert"
                   \/ task[t].pc = "done" /\ task[t].outcome \in {"duplicate", "rejected"}

\* C3 witness: a duplicate event was turned down while the charge id has its
\* payment row and its subscription row.
C3_Witness ==
    \E t \in Tasks :
        /\ task[t].kind = "pay" /\ task[t].late /\ task[t].outcome = "duplicate"
        /\ \E c \in ChargeIds :
                /\ ChargeIdTaken(payments, c)
                /\ Cardinality(RowsOfCharge(c)) = 1

\* C4: a step of a trial request that arrived after a completed trial of the
\* same user rejects it, appends no subscription row and invokes no grant.
C4_SecondTrialRejected ==
    [][\A t \in Tasks :
            (task'[t].kind = "trial" /\ task'[t].late /\ task'[t] # task[t])
                => /\ task'[t].pc = "done"
                   /\ task'[t].outcome = "rejected"
                   /\ subscriptions' = subscriptions
                   /\ grants' = grants]_vars

\* C4 witness: a trial request that arrived after a completed one was rejected.
C4_Witness ==
    \E t \in Tasks :
        /\ task[t].kind = "trial" /\ task[t].late /\ task[t].outcome = "rejected"
        /\ \E tg \in TgIds : grants[tg].trial = 1 /\ RowsOfKind(tg, "trial") # {}

\* C5: whatever the interleaving of a user's trial requests, the user gets at
\* most one trial row and at most one trial grant.
C5_TrialOncePerUser ==
    \A tg \in TgIds :
        /\ Cardinality(RowsOfKind(tg, "trial")) <= 1
        /\ grants[tg].trial <= 1

\* C6: a sweep that starts when all rows of a user are already expired, and
\* during which no row is added, calls revoke for that user zero times and
\* sends the user no expiry notice.
C6_SecondSweepSilent ==
    \A j \in Jobs : \A tg \in obs[j].allExpired :
        Len(subscriptions) = obs[j].len
            => calls[j][tg].revoke = 0 /\ calls[j][tg].notice = 0

\* C7: a sweep that starts when all rows of a user are active and stale, and
\* during which no row is added, ends with those rows expired, one revoke call
\* and one expiry notice for the user.
C7_SingleSweepRevokesOnce ==
    \A j \in Jobs : \A tg \in obs[j].staleOnly :
        (sweep[j].pc = "done" /\ Len(subscriptions) = obs[j].len)
            => /\ \A i \in RowsOf(subscriptions, tg) : subscriptions[i].status = "expired"
               /\ calls[j][tg].revoke = 1
               /\ calls[j][tg].notice = 1

\* C8: in every step no row is deleted, no row changes its user or its
\* expires_at, and no expired row becomes active again.
C8_StatusMonotonic ==
    [][/\ Len(subscriptions') >= Len(subscriptions)
       /\ \A i \in DOMAIN subscriptions :
            /\ subscriptions'[i].user_id = subscriptions[i].user_id
            /\ subscriptions'[i].expires_at = subscriptions[i].expires_at
            /\ subscriptions[i].status = "expired"
                    => subscriptions'[i].status = "expired"]_vars

\* C8 witness: a row was expired by a sweep and a row was appended after it.
C8_Witness ==
    \E i, j \in DOMAIN subscriptions :
        /\ i < j
        /\ subscriptions[i].status = "expired"
        /\ subscriptions[j].status = "active"
        /\ origin[j].created > subscriptions[i].expires_at

\* C9: once no handler of a charge id is in flight, its payment row has
\* exactly one subscription row, of the paying user, active, expiring
\* months * 30 days after its creation, and the user was granted access.
C9_PaymentExtends ==
    \A p \in DOMAIN payments :
        (~\E t \in Tasks : InFlight(t) /\ task[t].charge = payments[p].charge_id)
            => /\ \E i \in RowsOfCharge(payments[p].charge_id) :
                    /\ RowsOfCharge(payments[p].charge_id) = {i}
                    /\ i \in RowsOf(subscriptions, payments[p].user_id)
                    /\ subscriptions[i].status = "active"
                    /\ subscriptions[i].expires_at
                            = origin[i].created + payments[p].months * DaysPerMonth
               /\ grants[payments[p].user_id].pay >= 1

\* the payloads the claim calls malformed: too few fields, or a user id or a
\* period that is no integer
Malformed(parts) ==
    \/ Len(parts) < 4
    \/ ~parts[2].int
    \/ ~parts[3].int

\* C10: the step that takes up a payment event with a malformed payload
\* rejects it and leaves users, subscriptions, payments and grants unchanged.
C10_MalformedRejected ==
    [][\A t \in Tasks :
            (/\ Free(t)
             /\ task'[t] # task[t]
             /\ task'[t].kind = "pay"
             /\ Malformed(task'[t].payload))
                => /\ task'[t].pc = "done"
                   /\ task'[t].outcome = "rejected"
                   /\ UNCHANGED <<users, subscriptions, payments, grants>>]_vars

\* C10 witness: a payment event with a malformed payload was rejected after
\* the ledger had rows to lose.
C10_Witness ==
    \E t \in Tasks :
        /\ task[t].kind = "pay"
        /\ Malformed(task[t].payload)
        /\ task[t].outcome = "rejected"
        /\ users # <<>> /\ payments # <<>> /\ subscriptions # <<>>

\* C11: a run of a job that follows a run in which a revoke call for the user
\* failed, that starts while the user has an expired row and no active row
\* with expires_at > now, and during which no row is added, calls revoke for
\* the user at least once.
C11_FailedRevokeRetried ==
    \A j \in Jobs : \A tg \in obs[j].owed :
        (sweep[j].pc = "done" /\ Len(subscriptions) = obs[j].len)
            => calls[j][tg].revoke >= 1

\* the rows of users with a telegram id
UserRows(telegram_id) == {i \in DOMAIN users : users[i].telegram_id = telegram_id}

\* C12: after any calls of create_or_get_user there is at most one users row
\* per telegram id, and the calls that returned True for an id are as many as
\* its rows: one, the call that inserted the row.
C12_CreateOrGetIdempotent ==
    \A tg \in TgIds :
        /\ Cardinality(UserRows(tg)) <= 1
        /\ starts[tg].new = Cardinality(UserRows(tg))
        /\ starts[tg].known => starts[tg].new = 1

\* C12 witness: both users were created, each by one call that returned True,
\* and a later call for each returned False.
C12_Witness ==
    \A tg \in TgIds :
        starts[tg].new = 1 /\ starts[tg].known /\ Cardinality(UserRows(tg)) = 1

\* C13: whatever a grant call handed to a user is a single-use invite link of
\* the channel: no call ends with nothing delivered, and none delivers a link
\* of another kind.
C13_GrantDeliversInvite ==
    \A tg \in TgIds : delivered[tg] \subseteq {"invite"}

\* C14: a user is barred from the channel only while a revoke call for that
\* user is between its remove and its restore.
C14_RevokeLeavesRejoinable ==
    \A tg \in TgIds :
        channel[tg] = "kicked"
            => \E j \in Jobs :
                    \/ sweep[j].pc = "unban" /\ SweepUser(j) = tg
                    \/ sweep[j].pc = "runban" /\ RecoverUser(j) = tg

\* C15: a run sends a user the expiry notice only when the revoke call it
\* made just before has succeeded.
C15_NoticeOnlyAfterRevoke ==
    [][\A j \in Jobs : \A tg \in TgIds :
            calls'[j][tg].notice > calls[j][tg].notice => obs[j].revoke = "ok"]_vars

\* C16: no step, a failed channel call or a failed send included, takes a
\* ledger write back: users, subscriptions and payments rows stay, trial_used
\* stays set, an expired row stays expired, a payment row stays as written.
C16_LedgerWritesKept ==
    [][/\ Len(users') >= Len(users)
       /\ \A i \in DOMAIN users :
            /\ users'[i].telegram_id = users[i].telegram_id
            /\ users[i].trial_used => users'[i].trial_used
       /\ Len(subscriptions') >= Len(subscriptions)
       /\ \A i \in DOMAIN subscriptions :
            /\ subscriptions'[i].user_id = subscriptions[i].user_id
            /\ subscriptions[i].status = "expired" => subscriptions'[i].status = "expired"
       /\ Len(payments') >= Len(payments)
       /\ \A i \in DOMAIN payments : payments'[i] = payments[i]]_vars

\* C16 witness: a run whose revoke call failed and whose notice was not sent
\* has returned with the user's row expired, after a trial whose invite was
\* not delivered left its row and the trial_used flag.
C16_Witness ==
    \E tg \in TgIds :
        /\ sweep["cron"].pc = "done"
        /\ calls["cron"][tg].failed > 0
        /\ calls["cron"][tg].unsent > 0
        /\ "nothing" \in delivered[tg]
        /\ get_user_by_telegram(tg).trial_used
        /\ \E i \in RowsOfKind(tg, "trial") : subscriptions[i].status = "expired"

\* C17: a run that has returned has expired every row that was stale when it
\* started and has run the recovery query and the reminder query, whichever
\* of its sends failed; and every run that starts returns.
C17_SweepSurvivesFailedSends ==
    /\ [](sweep["cron"].pc = "done"
            => /\ \A i \in obs["cron"].stale : subscriptions[i].status = "expired"
               /\ obs["cron"].passes = {"recovery", "reminder"})
    /\ (Running("cron") ~> sweep["cron"].pc = "done")

\* C17 witness: a run has returned in which a notice of the expiry loop and a
\* notice of the recovery loop both failed to be sent.
C17_Witness ==
    \E tg \in TgIds :
        /\ sweep["cron"].pc = "done"
        /\ obs["cron"].stale # {}
        /\ calls["cron"][tg].notice = 2
        /\ calls["cron"][tg].unsent = 2

\* C18: a run of the interval job sends no renewal reminder.
C18_RemindersOnlyDaily ==
    \A tg \in TgIds : calls["interval"][tg].reminder = 0

\* C19: every user whom a process start finds with an active row past its
\* expires_at and no valid row has been sent the one-time notice by the time
\* main() starts polling.
C19_StartupNotice ==
    boot.owed \subseteq boot.noticed

\* C20: the run of the cron job and the run of the interval job are never in
\* progress at the same time.
C20_SweepsNeverOverlap ==
    ~(Running("cron") /\ Running("interval"))

\* The rows whose status a step changes
StatusChanged ==
    {i \in DOMAIN subscriptions :
        i \in DOMAIN subscriptions' /\ subscriptions'[i].status # subscriptions[i].status}

\* C21: a step of the sweep's expiry marks one row at most, a row that is
\* active and past its expires_at; every other row, the user's rows with
\* expires_at > now among them, keeps its status.
C21_ExpiryTouchesOneRow ==
    [][/\ Cardinality(StatusChanged) <= 1
       /\ \A i \in StatusChanged :
            subscriptions[i].status = "active" /\ subscriptions[i].expires_at < now]_vars

\* The users for whom the step issues ban_chat_member in the run of job j
BanIssued(j) ==
    {tg \in TgIds : calls'[j][tg].revoke > calls[j][tg].revoke}

\* C23: at the step in which a run issues ban_chat_member for a user, the
\* user has no row with status active and expires_at > now, whatever steps
\* of the handlers came between the run's verification and the call.
C23_NoRevokeOfValid ==
    [][\A j \in Jobs : Running(j) =>
            \A tg \in BanIssued(j) : ~has_active_subscription_by_telegram(tg)]_vars

\* the days a handler passes to add_subscription
Requested(t) ==
    CASE task[t].kind = "trial" -> TRIAL_DAYS
      [] task[t].kind = "pay" -> task[t].n * DaysPerMonth
      [] OTHER -> task[t].n

\* C22: the step of a handler that calls add_subscription(user, days) appends
\* exactly one row, with status active and expires_at = the time of the call
\* plus the days asked for, and leaves every row that existed as it was.
C22_AddAppendsOneRow ==
    [][\A t \in Tasks :
            (task[t].pc \in {"t_add", "p_add", "e_add"} /\ task'[t].pc # task[t].pc)
            => /\ Len(subscriptions') = Len(subscriptions) + 1
               /\ subscriptions'[Len(subscriptions) + 1] =
                    [user_id |-> task[t].uid, expires_at |-> now + Requested(t),
                     status |-> "active"]
               /\ \A i \in DOMAIN subscriptions : subscriptions'[i] = subscriptions[i]]_vars

\* C22 witness: a user who held a row with expires_at > now has been given a
\* second row, which runs from its own creation and ends before the first.
C22_Witness ==
    /\ Len(subscriptions) = 2
    /\ subscriptions[1].user_id = subscriptions[2].user_id
    /\ subscriptions[1].expires_at > origin[2].created
    /\ origin[2].created > origin[1].created
    /\ subscriptions[2].expires_at < subscriptions[1].expires_at
    /\ subscriptions[1].status = "active"

\* C24: a user to whom a message with a link to the channel has been
\* delivered has a subscription row, which the sweep will come to.
C24_GrantBackedByLedger ==
    \A tg \in TgIds :
        delivered[tg] \cap {"invite", "fallback"} # {}
        => RowsOf(subscriptions, tg) # {}

\* C25: once a payment event that was delivered again has been handled,
\* every charge id whose handling a process stop cut short after the payment
\* row was committed has exactly one subscription row.
C25_CrashedPaymentExtended ==
    \A t \in Tasks :
        (task[t].kind = "pay" /\ task[t].pc = "done" /\ task[t].late
            /\ task[t].outcome # "rejected")
        => \A c \in boot.cut :
                ChargeIdTaken(payments, c) /\ Cardinality(RowsOfCharge(c)) = 1

====
